---------------------------- MODULE Spec2Model ----------------------------
(***************************************************************************)
(* aws-credentials-helper: the renewal decision, the one-time-code engine, *)
(* the renewal orchestration of src/main.rs and src/mfa.rs, the key        *)
(* rotation of src/rotate.rs and the store file of src/storage.rs.         *)
(*                                                                         *)
(* An Option<T> is a sequence: <<>> is None and <<x>> is Some(x).          *)
(* Times are whole seconds since the epoch.                                *)
(***************************************************************************)
EXTENDS Integers, Sequences, FiniteSets, TLC

None == <<>>
Some(x) == <<x>>
IsSome(o) == o # <<>>
Unwrap(o) == o[1]

(***************************************************************************)
(* u32 arithmetic.  A u32 is a pair <<hi, lo>> of 16-bit halves, so that   *)
(* every intermediate value stays far below 2^31.                          *)
(***************************************************************************)
Half == 65536

U32Zero == <<0, 0>>
U32One == <<0, 1>>

\* u32::from_be_bytes (main.rs:175, mfa.rs:171)
FromBeBytes(b) == <<b[1] * 256 + b[2], b[3] * 256 + b[4]>>

\* one multiplication by ten in u32: the wrapped product and whether it overflowed
Mul10(x) ==
    LET lo == x[2] * 10
        hi == x[1] * 10 + (lo \div Half)
    IN  [value |-> <<hi % Half, lo % Half>>, overflow |-> hi >= Half]

\* 10_u32.pow(digits): the product wrapped to 32 bits, and whether the true
\* power exceeds u32 (the standard library's square-and-multiply overflows
\* exactly when the result does)
RECURSIVE Pow10(_)
Pow10(digits) ==
    IF digits = 0 THEN [value |-> U32One, overflow |-> FALSE]
    ELSE LET p == Pow10(digits - 1)
             m == Mul10(p.value)
         IN  [value |-> m.value, overflow |-> p.overflow \/ m.overflow]

U32Geq(a, b) == a[1] > b[1] \/ (a[1] = b[1] /\ a[2] >= b[2])

U32Sub(a, b) ==
    IF a[2] >= b[2] THEN <<a[1] - b[1], a[2] - b[2]>>
    ELSE <<a[1] - b[1] - 1, a[2] + Half - b[2]>>

RECURSIVE Pow2(_)
Pow2(n) == IF n = 0 THEN 1 ELSE 2 * Pow2(n - 1)

U32Bit(x, i) ==
    IF i >= 16 THEN (x[1] \div Pow2(i - 16)) % 2 ELSE (x[2] \div Pow2(i)) % 2

\* x % m in u32 (m # 0), by binary long division from the top bit down; r is
\* the remainder of the bits above bit i
RECURSIVE RemStep(_, _, _, _)
RemStep(x, m, i, r) ==
    IF i < 0 \/ r[1] < 0 THEN r
    ELSE LET lo == r[2] * 2 + U32Bit(x, i)
             r2 == <<r[1] * 2 + (lo \div Half), lo % Half>>
         IN  RemStep(x, m, i - 1, IF U32Geq(r2, m) THEN U32Sub(r2, m) ELSE r2)

U32Rem(x, m) == RemStep(x, m, 31, U32Zero)

\* the decimal digits of a u32, most significant first ("0" for zero): what
\* Display writes for an unsigned integer
RECURSIVE DecimalDigits(_)
DecimalDigits(x) ==
    IF x = U32Zero THEN <<>>
    ELSE LET mid == (x[1] % 10) * Half + x[2]
         IN  DecimalDigits(<<x[1] \div 10, mid \div 10>>) \o <<mid % 10>>

Display(x) == IF x = U32Zero THEN <<0>> ELSE DecimalDigits(x)

Zeros(n) == [i \in 1..n |-> 0]

\* format!("{:01$}", value, width): zero-padded to at least width characters,
\* never truncated
FormatZeroPad(s, width) ==
    IF Len(s) >= width THEN s ELSE Zeros(width - Len(s)) \o s

\* the tail of ykoath() after calculate returned (main.rs:175-180,
\* mfa.rs:171-176).  overflowChecks is the build: TRUE panics on arithmetic
\* overflow (debug), FALSE wraps (release).
YkoathDecode(digits, response, overflowChecks) ==
    IF Len(response) # 4 THEN [kind |-> "panic", code |-> <<>>]
    ELSE LET p == Pow10(digits)
         IN  IF p.overflow /\ overflowChecks THEN [kind |-> "panic", code |-> <<>>]
             ELSE IF p.value = U32Zero THEN [kind |-> "panic", code |-> <<>>]
             ELSE [kind |-> "ok",
                   code |-> FormatZeroPad(
                       Display(U32Rem(FromBeBytes(response), p.value)), digits)]


(***************************************************************************)
(* Bounds of the model and the values the collaborators may produce.       *)
(***************************************************************************)
MaxNow == 2
MaxExpiration == 3
MaxDuration == 6
MaxDigits == 10

\* main.rs:89, the fixed renewal margin in seconds
Margin == 600
\* main.rs:122-134 sends no duration_seconds: the session lasts the service's
\* default of twelve hours
DefaultSessionSecs == 43200

Nows == 0..MaxNow
Durations == 0..MaxDuration
Digits == 0..MaxDigits
\* expirations a stored record may carry: around now + duration/5 for mfa.rs,
\* around now + Margin for main.rs
Expirations(c) ==
    IF c = "main" THEN {Margin + e : e \in 0..MaxExpiration}
    ELSE 0..MaxExpiration

\* serial numbers the identity service may report; the store is configured
\* for the first at most
Serials == {"mfa1", "mfa2"}
Profile == "p"
MfaProfile == "p/mfa"
AccountName == "acct"
\* responses of the token: 4-byte values and one malformed 3-byte value
RawResponses ==
    { <<0, 15, 66, 64>>, <<0, 0, 0, 0>>, <<0, 0, 0, 42>>, <<73, 150, 2, 210>>,
      <<255, 255, 255, 255>>, <<1, 2, 3>> }

(***************************************************************************)
(* Text of a file.  It is a sequence of tokens.  A JSON document is an     *)
(* opening brace, then for each map a section token followed by one entry  *)
(* token per key, then a closing brace; an INI file is one section token   *)
(* per section, carrying its properties.  A JSON object or a property list *)
(* is a record; a field the text leaves out is left out of its domain.     *)
(***************************************************************************)
Punct(t) == [tag |-> t, key |-> "", val |-> [x |-> 0]]
Open == Punct("{")
Close == Punct("}")
Section(name) == [tag |-> "section", key |-> name, val |-> [x |-> 0]]
IniSection(name, props) == [tag |-> "section", key |-> name, val |-> props]
Entry(k, v) == [tag |-> "entry", key |-> k, val |-> v]

NoFile == [exists |-> FALSE, text |-> <<>>]
File(text) == [exists |-> TRUE, text |-> text]

\* the keys of a map in the order it is written (BTreeMap: sorted)
KeyOrder == <<"iam1", "iam2", "mfa1", "mfa2", "p", "p/mfa">>

RECURSIVE EntriesFrom(_, _)
EntriesFrom(m, i) ==
    IF i > Len(KeyOrder) THEN <<>>
    ELSE (IF KeyOrder[i] \in DOMAIN m
          THEN <<Entry(KeyOrder[i], m[KeyOrder[i]])>> ELSE <<>>)
         \o EntriesFrom(m, i + 1)

\* the entry tokens of a map, in key order
MapEntries(m) == EntriesFrom(m, 1)

\* the section an entry token at position i belongs to ("" for none)
SectionAt(text, i) ==
    LET before == {j \in 1..(i - 1) : text[j].tag = "section"}
    IN  IF before = {} THEN ""
        ELSE text[CHOOSE j \in before : \A k \in before : k <= j].key

HasSection(text, name) ==
    \E i \in 1..Len(text) : text[i].tag = "section" /\ text[i].key = name

\* the entries of a JSON map, from key to value as written
EntriesOf(text, name) ==
    LET idx == {i \in 1..Len(text) :
                    text[i].tag = "entry" /\ SectionAt(text, i) = name}
    IN  [k \in {text[i].key : i \in idx} |->
            text[CHOOSE i \in idx : text[i].key = k].val]

\* a complete JSON document: braces around sections and their entries
IsJsonDocument(text) ==
    /\ Len(text) >= 2
    /\ text[1] = Open
    /\ text[Len(text)] = Close
    /\ \A i \in 2..(Len(text) - 1) :
          /\ text[i].tag \in {"section", "entry"}
          /\ text[i].tag = "entry" => SectionAt(text, i) # ""

\* an RFC 3339 timestamp string, and a string that is none
Rfc3339(t) == <<"rfc3339", t>>
Junk == <<"junk">>
\* DateTime::parse_from_rfc3339 (mfa.rs:46, mfa.rs:73)
ParseRfc3339(str) ==
    IF Len(str) = 2 THEN [ok |-> TRUE, value |-> str[2]]
    ELSE [ok |-> FALSE, value |-> 0]

(***************************************************************************)
(* main.rs: Storage { mfa_devices: serial -> MfaDevice { credentials:      *)
(* Option<Credentials>, ykoath } }, every field of Credentials required.   *)
(***************************************************************************)
CredentialsFields ==
    {"access_key_id", "secret_access_key", "session_token", "expiration"}

\* serde_json::to_vec_pretty(&storage)  (main.rs:97): None is written null
MainToJson(st) ==
    <<Open, Section("mfa-devices")>>
    \o MapEntries(st.mfa_devices) \o <<Close>>

\* one MfaDevice of the text: ykoath is required, credentials may be left
\* out or null, a credentials object must hold all four fields
MainDeviceOk(v) ==
    /\ "ykoath" \in DOMAIN v
    /\ "credentials" \in DOMAIN v /\ v.credentials # None
          => CredentialsFields \subseteq DOMAIN Unwrap(v.credentials)

MainDevice(v) ==
    [credentials |->
        IF "credentials" \in DOMAIN v /\ v.credentials # None
        THEN Some([f \in CredentialsFields |-> Unwrap(v.credentials)[f]])
        ELSE None,
     ykoath |-> v.ykoath]

\* serde_json::from_slice::<Storage>  (main.rs:61): mfa-devices is required
MainFromJson(text) ==
    LET raw == EntriesOf(text, "mfa-devices")
    IN  IF /\ IsJsonDocument(text)
           /\ HasSection(text, "mfa-devices")
           /\ \A k \in DOMAIN raw : MainDeviceOk(raw[k])
        THEN [ok |-> TRUE,
              value |-> [mfa_devices |-> [k \in DOMAIN raw |-> MainDevice(raw[k])]]]
        ELSE [ok |-> FALSE, value |-> [mfa_devices |-> <<>>]]


(***************************************************************************)
(* storage.rs: Storage { credentials: id -> Credentials, mfa_devices: id   *)
(* -> MfaDevice }, session_token and expiration optional.                  *)
(***************************************************************************)
\* CredentialsToJson writing an absent session token as an empty string
CredentialsToJsonNulls(c) ==
    LET fields == {"access_key_id", "secret_access_key", "session_token"}
                  \cup (IF c.expiration # None THEN {"expiration"} ELSE {})
    IN  [f \in fields |->
            IF f = "expiration" THEN Rfc3339(Unwrap(c.expiration))
            ELSE IF f = "session_token"
            THEN IF c.session_token # None THEN Unwrap(c.session_token) ELSE ""
            ELSE c[f]]

\* Serialize for Credentials (storage.rs:35-44): an Option that is None is
\* skipped, the expiration is written as an RFC 3339 string
CredentialsToJson(c) ==
    LET fields == {"access_key_id", "secret_access_key"}
                  \cup (IF c.session_token # None THEN {"session_token"} ELSE {})
                  \cup (IF c.expiration # None THEN {"expiration"} ELSE {})
    IN  [f \in fields |->
            IF f = "expiration" THEN Rfc3339(Unwrap(c.expiration))
            ELSE IF f = "session_token" THEN Unwrap(c.session_token)
            ELSE c[f]]

\* Storage::save's text (storage.rs:24): both maps, in key order
StorageToJson(st) ==
    <<Open, Section("credentials")>>
    \o MapEntries([k \in DOMAIN st.credentials |-> CredentialsToJson(st.credentials[k])])
    \o <<Section("mfa-devices")>>
    \o MapEntries(st.mfa_devices)
    \o <<Close>>

\* Deserialize for Credentials: the two keys are required, an optional field
\* left out is None, an expiration must parse
CredentialsJsonOk(v) ==
    /\ {"access_key_id", "secret_access_key"} \subseteq DOMAIN v
    /\ "expiration" \in DOMAIN v => ParseRfc3339(v.expiration).ok

CredentialsFromJson(v) ==
    [access_key_id |-> v.access_key_id,
     secret_access_key |-> v.secret_access_key,
     session_token |->
        IF "session_token" \in DOMAIN v THEN Some(v.session_token) ELSE None,
     expiration |->
        IF "expiration" \in DOMAIN v THEN Some(ParseRfc3339(v.expiration).value)
        ELSE None]

\* Deserialize for MfaDevice (storage.rs:110-120): the ykoath variant
MfaDeviceJsonOk(v) == DOMAIN v = {"ykoath"} /\ DOMAIN v.ykoath = {"name"}

\* Storage::load's parse (storage.rs:20): a map left out is empty
StorageFromJson(text) ==
    LET creds == EntriesOf(text, "credentials")
        devices == EntriesOf(text, "mfa-devices")
    IN  IF /\ IsJsonDocument(text)
           /\ \A k \in DOMAIN creds : CredentialsJsonOk(creds[k])
           /\ \A k \in DOMAIN devices : MfaDeviceJsonOk(devices[k])
        THEN [ok |-> TRUE,
              value |-> [credentials |->
                            [k \in DOMAIN creds |-> CredentialsFromJson(creds[k])],
                         mfa_devices |-> devices]]
        ELSE [ok |-> FALSE, value |-> [credentials |-> <<>>, mfa_devices |-> <<>>]]

(***************************************************************************)
(* State.                                                                  *)
(***************************************************************************)
VARIABLES
    cmd,        \* the program that runs: "main" (main.rs), "mfa" (mfa.rs), "rotate" (rotate.rs)
    opts,       \* its command line: [duration, arg, iam]
    now,        \* the clock, in seconds
    pc,         \* where the program is
    result,     \* "running", "ok" or the kind of its error
    disk,       \* the store file: [exists, text]
    disk0,      \* the store file when the program started
    config,     \* mfa.rs: the config file (read only): [exists, text]
    storage,    \* the document in memory, once loaded
    serial,     \* Option: the serial number list_mfa_devices reported
    decision,   \* "none", "Fresh" or "Stale"
    yk,         \* the one-time-code engine: Idle, Start, Connected, Selected, Calculating, CodeReady, Failed
    ykLog,      \* the commands sent to the token: [cmd, st]
    ykAnswer,   \* Option: the token's answer to calculate, [digits, response]
    tokenCode,  \* Option: the code the engine returned
    stsOut,     \* Option: the response of get_session_token
    wbuf,       \* fs::write: the text not yet written
    calls,      \* how often each collaborator was called
    handed,     \* Option: the credentials the child process was given
    iamKeys,    \* the access keys the identity has at the service
    iamKeys0,   \* the access keys it had when the program started
    listed,     \* rotate.rs: the listed keys not yet visited
    trace,      \* rotate.rs: what tracing::debug! has put out, in order
    ops,        \* rotate.rs: the calls on the identity service and the save, in order
    peer        \* a second invocation on the same store file: [kind, pc, result, storage, saved, listed, deleted]

vars == <<cmd, opts, now, pc, result, disk, disk0, config, storage, serial,
          decision, yk, ykLog, ykAnswer, tokenCode, stsOut, wbuf, calls,
          handed, iamKeys, iamKeys0, listed, trace, ops, peer>>

\* what a run never changes
fixed == <<cmd, opts, now, disk0, config, iamKeys0>>
ykVars == <<yk, ykLog, ykAnswer, tokenCode>>
iamVars == <<iamKeys, listed>>

NoCalls == [list_mfa_devices |-> 0, connect |-> 0, select |-> 0, calculate |-> 0,
            get_session_token |-> 0, write |-> 0, spawn |-> 0,
            list_access_keys |-> 0, delete_access_key |-> 0, create_access_key |-> 0]
Called(what) == [calls EXCEPT ![what] = @ + 1]

\* an error return: anyhow's `?` ends the program
Fail(kind) == pc' = "done" /\ result' = kind
Goto(label) == pc' = label /\ result' = result

(***************************************************************************)
(* Stores the programs may start from.                                     *)
(***************************************************************************)
OldCredentials(e) ==
    [access_key_id |-> "ASIAold", secret_access_key |-> "secret-old",
     session_token |-> "token-old", expiration |-> e]
\* a credentials object of the text that lacks its expiration
NoExpirationCredentials ==
    [access_key_id |-> "ASIAold", secret_access_key |-> "secret-old",
     session_token |-> "token-old"]
Ykoath == [name |-> AccountName]

\* the values "mfa1" may have in the file main.rs reads
MainDeviceTexts ==
    {[ykoath |-> Ykoath], [credentials |-> None, ykoath |-> Ykoath],
     [credentials |-> Some(NoExpirationCredentials), ykoath |-> Ykoath]}
    \cup {[credentials |-> Some(OldCredentials(e)), ykoath |-> Ykoath] :
            e \in Expirations("main")}

MainFiles ==
    {NoFile, File(<<>>), File(<<Open, Close>>),
     File(<<Open, Section("mfa-devices"), Close>>)}
    \cup {File(<<Open, Section("mfa-devices"), Entry("mfa1", v), Close>>) :
            v \in MainDeviceTexts}

(***************************************************************************)
(* mfa.rs: the credentials file and the config file are INI files; the     *)
(* cached record is the section "<profile>/mfa" of the credentials file.   *)
(***************************************************************************)
\* Ini::load_from_file (mfa.rs:28-29): the sections of the text
IniFromText(text) ==
    [k \in {text[i].key : i \in 1..Len(text)} |->
        text[CHOOSE i \in 1..Len(text) : text[i].key = k].val]

\* write_to_file (mfa.rs:145): a section token for each section
IniToText(ini) ==
    LET entries == MapEntries(ini)
    IN  [i \in 1..Len(entries) |-> IniSection(entries[i].key, entries[i].val)]

\* ini.section(Some(name)), as an Option
IniGet(ini, name) == IF name \in DOMAIN ini THEN Some(ini[name]) ELSE None

MfaSectionTexts ==
    {[aws_access_key_id |-> "ASIAold", aws_secret_access_key |-> "secret-old",
      aws_session_token |-> "token-old"],
     [aws_access_key_id |-> "ASIAold", aws_secret_access_key |-> "secret-old",
      aws_session_token |-> "token-old", aws_expiration |-> Junk],
     [aws_access_key_id |-> "ASIAold", aws_secret_access_key |-> "secret-old",
      aws_expiration |-> Rfc3339(0)],
     [aws_secret_access_key |-> "secret-old", aws_session_token |-> "token-old",
      aws_expiration |-> Rfc3339(0)]}
    \cup {[aws_access_key_id |-> "ASIAold", aws_secret_access_key |-> "secret-old",
           aws_session_token |-> "token-old", aws_expiration |-> Rfc3339(e)] :
            e \in Expirations("mfa")}

BaseSectionTexts ==
    {[aws_access_key_id |-> "AKIAbase", aws_secret_access_key |-> "secret-base"],
     [aws_access_key_id |-> "AKIAbase"]}

MfaCredentialsFiles ==
    {NoFile, File(<<>>)}
    \cup {File(<<IniSection(Profile, b)>>) : b \in BaseSectionTexts}
    \cup {File(<<IniSection(MfaProfile, m)>>) : m \in MfaSectionTexts}
    \cup {File(<<IniSection(Profile, b), IniSection(MfaProfile, m)>>) :
            b \in BaseSectionTexts, m \in MfaSectionTexts}

MfaConfigFiles ==
    {NoFile, File(<<>>), File(<<IniSection(Profile, [region |-> "r"])>>),
     File(<<IniSection(Profile, [ykoath_name |-> AccountName])>>)}

(***************************************************************************)
(* rotate.rs: the stores it may start from and the identity's access keys. *)
(***************************************************************************)
Iam == "iam1"
\* access keys the identity may have before the rotation; the store caches
\* the first
KeyIds == {"AKIA1", "AKIA2", "AKIA3"}
CachedKeyId == "AKIA1"
\* the id create_access_key gives the key it makes: one never used before
NewKeyId == "AKIAnew"

LongLived(id) ==
    [access_key_id |-> id, secret_access_key |-> "secret-of-" \o id,
     session_token |-> None, expiration |-> None]
Temporary ==
    [access_key_id |-> "ASIAold", secret_access_key |-> "secret-old",
     session_token |-> Some("token-old"), expiration |-> Some(MaxExpiration)]

RotateStores ==
    {[credentials |-> <<>>, mfa_devices |-> <<>>],
     [credentials |-> [k \in {Iam} |-> LongLived(CachedKeyId)], mfa_devices |-> <<>>],
     [credentials |-> [k \in {Iam, "mfa1"} |->
                          IF k = Iam THEN LongLived(CachedKeyId) ELSE Temporary],
      mfa_devices |-> [k \in {"mfa1"} |-> [ykoath |-> Ykoath]]]}

RotateFiles ==
    {NoFile, File(<<>>), File(<<Open, Close>>)}
    \cup {File(StorageToJson(st)) : st \in RotateStores}

InitCommon ==
    /\ now \in Nows
    /\ pc = "start" /\ result = "running"
    /\ disk0 = disk
    /\ storage = None /\ serial = None /\ decision = "none"
    /\ yk = "Idle" /\ ykLog = <<>> /\ ykAnswer = None /\ tokenCode = None
    /\ stsOut = None
    /\ wbuf = <<>> /\ calls = NoCalls /\ handed = None
    /\ iamKeys0 = iamKeys /\ listed = <<>>
    /\ trace = <<>> /\ ops = <<>>

InitMain ==
    /\ cmd = "main"
    /\ opts \in [duration : {DefaultSessionSecs}, arg : BOOLEAN, iam : {""}]
    /\ disk \in MainFiles
    /\ config = NoFile
    /\ iamKeys = {}
    /\ InitCommon


InitMfa ==
    /\ cmd = "mfa"
    /\ opts \in [duration : Durations, arg : BOOLEAN, iam : {""}]
    /\ disk \in MfaCredentialsFiles
    /\ config \in MfaConfigFiles
    /\ iamKeys = {}
    /\ InitCommon

InitRotate ==
    /\ cmd = "rotate"
    /\ opts \in [duration : {0}, arg : {FALSE}, iam : {Iam, "mfa1"}]
    /\ disk \in RotateFiles
    /\ config = NoFile
    /\ iamKeys \in SUBSET KeyIds
    /\ InitCommon

(***************************************************************************)
(* The renewal decision.                                                   *)
(***************************************************************************)
\* MainExpired taking an entry without credentials for a fresh one
MainExpiredLenient(credentials, t) ==
    IF IsSome(credentials) THEN t + Margin > Unwrap(credentials).expiration
    ELSE FALSE

\* main.rs:83-92: `expired`, for the entry's Option<Credentials>
MainExpired(credentials, t) ==
    IF IsSome(credentials) THEN t + Margin > Unwrap(credentials).expiration
    ELSE TRUE

\* MfaRenew with the margin dropped: stale only once expired
MfaRenewNoMargin(section, duration, t) ==
    IF section = None THEN [error |-> "", renew |-> TRUE]
    ELSE LET props == Unwrap(section)
         IN  IF \E f \in {"aws_access_key_id", "aws_secret_access_key",
                          "aws_session_token"} : f \notin DOMAIN props
             THEN [error |-> "InvalidRecord", renew |-> FALSE]
             ELSE IF "aws_expiration" \notin DOMAIN props
             THEN [error |-> "NoExpiration", renew |-> FALSE]
             ELSE IF ~ParseRfc3339(props.aws_expiration).ok
             THEN [error |-> "BadExpiration", renew |-> FALSE]
             ELSE [error |-> "",
                   renew |-> t > ParseRfc3339(props.aws_expiration).value]

\* MfaRenew taking a record without expiration for a fresh one
MfaRenewLenient(section, duration, t) ==
    IF section = None THEN [error |-> "", renew |-> TRUE]
    ELSE LET props == Unwrap(section)
         IN  IF \E f \in {"aws_access_key_id", "aws_secret_access_key",
                          "aws_session_token"} : f \notin DOMAIN props
             THEN [error |-> "InvalidRecord", renew |-> FALSE]
             ELSE IF "aws_expiration" \notin DOMAIN props
             THEN [error |-> "", renew |-> FALSE]
             ELSE IF ~ParseRfc3339(props.aws_expiration).ok
             THEN [error |-> "BadExpiration", renew |-> FALSE]
             ELSE [error |-> "",
                   renew |-> t + (duration \div 5)
                                > ParseRfc3339(props.aws_expiration).value]

\* mfa.rs:33-55: `renew`, for the section Option; error is "" unless the
\* step fails
MfaRenew(section, duration, t) ==
    IF section = None THEN [error |-> "", renew |-> TRUE]
    ELSE LET props == Unwrap(section)
         IN  IF \E f \in {"aws_access_key_id", "aws_secret_access_key",
                          "aws_session_token"} : f \notin DOMAIN props
             THEN [error |-> "InvalidRecord", renew |-> FALSE]
             ELSE IF "aws_expiration" \notin DOMAIN props
             THEN [error |-> "NoExpiration", renew |-> FALSE]
             ELSE IF ~ParseRfc3339(props.aws_expiration).ok
             THEN [error |-> "BadExpiration", renew |-> FALSE]
             ELSE [error |-> "",
                   renew |-> t + (duration \div 5)
                                > ParseRfc3339(props.aws_expiration).value]

Decision(renew) == IF renew THEN "Stale" ELSE "Fresh"

(***************************************************************************)
(* main.rs, up to the renewal.                                             *)
(***************************************************************************)
\* main.rs:61: read and parse the store file
MainLoad ==
    /\ cmd = "main" /\ pc = "start"
    /\ IF ~disk.exists THEN Fail("NotFound") /\ UNCHANGED storage
       ELSE IF ~MainFromJson(disk.text).ok THEN Fail("Corrupt") /\ UNCHANGED storage
       ELSE Goto("list_mfa_devices") /\ storage' = MainFromJson(disk.text).value
    /\ UNCHANGED <<fixed, peer, trace, ops, disk, serial, decision, ykVars, stsOut, wbuf, calls,
                   handed, iamVars>>

\* main.rs:63-76 and mfa.rs:84-94: the first registered device's serial number
\* (main.rs also demands its user name)
ListMfaDevices ==
    /\ cmd \in {"main", "mfa"} /\ pc = "list_mfa_devices"
    /\ calls' = Called("list_mfa_devices")
    /\ \/ Fail("ServiceError") /\ UNCHANGED serial
       \/ Fail("NoDeviceRegistered") /\ UNCHANGED serial
       \/ cmd = "main" /\ Fail("NoUserName") /\ UNCHANGED serial
       \/ Fail("NoSerialNumber") /\ UNCHANGED serial
       \/ \E sn \in Serials :
             /\ serial' = Some(sn)
             /\ Goto(IF cmd = "main" THEN "entry" ELSE "token_code")
    /\ UNCHANGED <<fixed, peer, trace, ops, disk, storage, decision, ykVars, stsOut, wbuf, handed,
                   iamVars>>

\* main.rs:78-81: the store's entry for the device
MainEntry ==
    /\ cmd = "main" /\ pc = "entry"
    /\ IF Unwrap(serial) \in DOMAIN storage.mfa_devices
       THEN Goto("decide") ELSE Fail("UnconfiguredDevice")
    /\ UNCHANGED <<fixed, peer, trace, ops, disk, storage, serial, decision, ykVars, stsOut, wbuf,
                   calls, handed, iamVars>>

\* MainDecide going to the child whatever it decided
MainDecideSkipRenewal ==
    /\ cmd = "main" /\ pc = "decide"
    /\ LET expired ==
              MainExpired(storage.mfa_devices[Unwrap(serial)].credentials, now)
       IN  /\ decision' = Decision(expired)
           /\ Goto("spawn")
           /\ yk' = yk
    /\ UNCHANGED <<fixed, peer, trace, ops, disk, storage, serial, ykLog, ykAnswer, tokenCode,
                   stsOut, wbuf, calls, handed, iamVars>>

\* MainDecide renewing whatever it decided
MainDecideRenewAnyway ==
    /\ cmd = "main" /\ pc = "decide"
    /\ LET expired ==
              MainExpired(storage.mfa_devices[Unwrap(serial)].credentials, now)
       IN  /\ decision' = Decision(expired)
           /\ Goto("ykoath")
           /\ yk' = "Start"
    /\ UNCHANGED <<fixed, peer, trace, ops, disk, storage, serial, ykLog, ykAnswer, tokenCode,
                   stsOut, wbuf, calls, handed, iamVars>>

\* main.rs:83-94: decide, and branch on it.  get_session_token is entered
\* at the engine (main.rs:126-131 evaluates the token code first).
MainDecide ==
    /\ cmd = "main" /\ pc = "decide"
    /\ LET expired ==
              MainExpired(storage.mfa_devices[Unwrap(serial)].credentials, now)
       IN  /\ decision' = Decision(expired)
           /\ Goto(IF expired THEN "ykoath" ELSE "spawn")
           /\ yk' = IF expired THEN "Start" ELSE yk
    /\ UNCHANGED <<fixed, peer, trace, ops, disk, storage, serial, ykLog, ykAnswer, tokenCode,
                   stsOut, wbuf, calls, handed, iamVars>>

(***************************************************************************)
(* ykoath(name): main.rs:163-181, mfa.rs:159-177.                          *)
(***************************************************************************)
Sent(c, st) == Append(ykLog, [cmd |-> c, st |-> st])
Answered(st) == [ykLog EXCEPT ![Len(ykLog)].st = st]

\* YubiKey::connect
YkConnect ==
    /\ pc = "ykoath" /\ yk = "Start"
    /\ calls' = Called("connect")
    /\ \/ yk' = "Connected" /\ ykLog' = Sent("connect", "ok") /\ Goto("ykoath")
       \/ /\ yk' = "Failed" /\ ykLog' = Sent("connect", "failed")
          /\ \E kind \in {"DeviceNotFound", "DeviceError"} : Fail(kind)
    /\ UNCHANGED <<fixed, peer, trace, ops, disk, storage, serial, decision, ykAnswer, tokenCode,
                   stsOut, wbuf, handed, iamVars>>

\* yubikey.select
YkSelect ==
    /\ pc = "ykoath" /\ yk = "Connected"
    /\ calls' = Called("select")
    /\ \/ yk' = "Selected" /\ ykLog' = Sent("select", "ok") /\ Goto("ykoath")
       \/ yk' = "Failed" /\ ykLog' = Sent("select", "failed") /\ Fail("DeviceError")
    /\ UNCHANGED <<fixed, peer, trace, ops, disk, storage, serial, decision, ykAnswer, tokenCode,
                   stsOut, wbuf, handed, iamVars>>

\* yubikey.calculate(true, name, challenge): the request goes out; the token
\* answers at once or after the touch it asks for
YkCalculate ==
    /\ pc = "ykoath" /\ yk = "Selected"
    /\ calls' = Called("calculate")
    /\ yk' = "Calculating" /\ ykLog' = Sent("calculate", "pending")
    /\ Goto("ykoath")
    /\ UNCHANGED <<fixed, peer, trace, ops, disk, storage, serial, decision, ykAnswer, tokenCode,
                   stsOut, wbuf, handed, iamVars>>

\* YkResponse asking again when the token declined
YkResponseRetry ==
    /\ pc = "ykoath" /\ yk = "Calculating"
    /\ \/ /\ yk' = "Selected" /\ ykLog' = Answered("failed")
          /\ Goto("ykoath")
          /\ UNCHANGED <<ykAnswer, tokenCode>>
       \/ \E digits \in Digits, response \in RawResponses, overflowChecks \in BOOLEAN :
             LET out == YkoathDecode(digits, response, overflowChecks)
             IN  /\ ykLog' = Answered("ok")
                 /\ ykAnswer' = Some([digits |-> digits, response |-> response])
                 /\ IF out.kind = "ok"
                    THEN /\ yk' = "CodeReady"
                         /\ tokenCode' = Some(out.code)
                         /\ Goto("get_session_token")
                    ELSE yk' = "Failed" /\ Fail("Panic") /\ UNCHANGED tokenCode
    /\ UNCHANGED <<fixed, peer, trace, ops, disk, storage, serial, decision, stsOut, wbuf, calls,
                   handed, iamVars>>

\* the answer to calculate and the decoding of it; a panic of the blocking
\* task is re-raised by the unwrap of its join (main.rs:130-131, mfa.rs:105-107)
YkResponse ==
    /\ pc = "ykoath" /\ yk = "Calculating"
    /\ \/ /\ yk' = "Failed" /\ ykLog' = Answered("failed")
          /\ \E kind \in {"AccountNotFound", "DeviceError"} : Fail(kind)
          /\ UNCHANGED <<ykAnswer, tokenCode>>
       \/ \E digits \in Digits, response \in RawResponses, overflowChecks \in BOOLEAN :
             LET out == YkoathDecode(digits, response, overflowChecks)
             IN  /\ ykLog' = Answered("ok")
                 /\ ykAnswer' = Some([digits |-> digits, response |-> response])
                 /\ IF out.kind = "ok"
                    THEN /\ yk' = "CodeReady"
                         /\ tokenCode' = Some(out.code)
                         /\ Goto("get_session_token")
                    ELSE yk' = "Failed" /\ Fail("Panic") /\ UNCHANGED tokenCode
    /\ UNCHANGED <<fixed, peer, trace, ops, disk, storage, serial, decision, stsOut, wbuf, calls,
                   handed, iamVars>>

(***************************************************************************)
(* The exchange with the identity service.                                 *)
(***************************************************************************)
\* the fields of aws_sdk_sts::model::Credentials, each an Option
StsCredentials(present) ==
    [access_key_id |-> IF "access_key_id" \in present THEN Some("ASIAnew") ELSE None,
     secret_access_key |->
        IF "secret_access_key" \in present THEN Some("secret-new") ELSE None,
     session_token |-> IF "session_token" \in present THEN Some("token-new") ELSE None,
     expiration |->
        IF "expiration" \in present THEN Some(now + opts.duration) ELSE None]

StsOutputs ==
    {[credentials |-> None]}
    \cup {[credentials |-> Some(StsCredentials(present))] :
            present \in SUBSET CredentialsFields}

\* GetSessionToken going on to the save when the service declined
GetSessionTokenSaveAnyway ==
    /\ cmd \in {"main", "mfa"} /\ pc = "get_session_token"
    /\ calls' = Called("get_session_token")
    /\ tokenCode' = None /\ ykAnswer' = None
    /\ \/ Goto("save") /\ UNCHANGED stsOut
       \/ \E out \in StsOutputs : stsOut' = Some(out) /\ Goto("credentials")
    /\ UNCHANGED <<fixed, peer, trace, ops, disk, storage, serial, decision, yk, ykLog, wbuf,
                   handed, iamVars>>

\* main.rs:122-134 and mfa.rs:111-117: get_session_token().send()
GetSessionToken ==
    /\ cmd \in {"main", "mfa"} /\ pc = "get_session_token"
    /\ calls' = Called("get_session_token")
    /\ tokenCode' = None /\ ykAnswer' = None
    /\ \/ Fail("ExchangeRejected") /\ UNCHANGED stsOut
       \/ \E out \in StsOutputs : stsOut' = Some(out) /\ Goto("credentials")
    /\ UNCHANGED <<fixed, peer, trace, ops, disk, storage, serial, decision, yk, ykLog, wbuf,
                   handed, iamVars>>

\* main.rs:135-160 and main.rs:95: every field is demanded, then the entry's
\* credentials are replaced
MainCredentials ==
    /\ cmd = "main" /\ pc = "credentials"
    /\ LET out == Unwrap(stsOut).credentials
           sn == Unwrap(serial)
       IN  IF out = None \/ \E f \in CredentialsFields : Unwrap(out)[f] = None
           THEN Fail("IncompleteResponse") /\ UNCHANGED storage
           ELSE /\ storage' =
                     [storage EXCEPT !.mfa_devices[sn].credentials =
                         Some([f \in CredentialsFields |-> Unwrap(Unwrap(out)[f])])]
                /\ Goto("save")
    /\ UNCHANGED <<fixed, peer, trace, ops, disk, serial, decision, ykVars, stsOut, wbuf, calls,
                   handed, iamVars>>

(***************************************************************************)
(* mfa.rs.                                                                 *)
(***************************************************************************)
\* mfa.rs:28-29: both files are loaded
MfaLoad ==
    /\ cmd = "mfa" /\ pc = "start"
    /\ IF ~config.exists \/ ~disk.exists THEN Fail("NotFound") /\ UNCHANGED storage
       ELSE Goto("decide") /\ storage' = IniFromText(disk.text)
    /\ UNCHANGED <<fixed, peer, trace, ops, disk, serial, decision, ykVars, stsOut, wbuf, calls,
                   handed, iamVars>>

\* mfa.rs:33-57: decide, and branch on it
MfaDecide ==
    /\ cmd = "mfa" /\ pc = "decide"
    /\ LET d == MfaRenew(IniGet(storage, MfaProfile), opts.duration, now)
       IN  IF d.error # "" THEN Fail(d.error) /\ UNCHANGED decision
           ELSE /\ decision' = Decision(d.renew)
                /\ Goto(IF d.renew THEN "base_profile" ELSE "spawn")
    /\ UNCHANGED <<fixed, peer, trace, ops, disk, storage, serial, ykVars, stsOut, wbuf, calls,
                   handed, iamVars>>

\* mfa.rs:58-82: the long-lived keys of the profile sign the service calls
MfaBaseProfile ==
    /\ cmd = "mfa" /\ pc = "base_profile"
    /\ LET section == IniGet(storage, Profile)
       IN  IF section = None THEN Fail("NoSection")
           ELSE IF \E f \in {"aws_access_key_id", "aws_secret_access_key"} :
                      f \notin DOMAIN Unwrap(section)
           THEN Fail("NoBaseKey")
           ELSE IF /\ "aws_expiration" \in DOMAIN Unwrap(section)
                   /\ ~ParseRfc3339(Unwrap(section).aws_expiration).ok
           THEN Fail("BadExpiration")
           ELSE Goto("list_mfa_devices")
    /\ UNCHANGED <<fixed, peer, trace, ops, disk, storage, serial, decision, ykVars, stsOut, wbuf,
                   calls, handed, iamVars>>

\* ConfigIni: config_ini (mfa.rs:28)
ConfigIni == IniFromText(config.text)

\* MfaTokenCode going to the token without an account name
MfaTokenCodeAnyway ==
    /\ cmd = "mfa" /\ pc = "token_code"
    /\ Goto("ykoath") /\ yk' = "Start"
    /\ UNCHANGED <<fixed, peer, trace, ops, disk, storage, serial, decision, ykLog, ykAnswer,
                   tokenCode, stsOut, wbuf, calls, handed, iamVars>>

\* mfa.rs:96-104: the account name the profile is configured with
MfaTokenCode ==
    /\ cmd = "mfa" /\ pc = "token_code"
    /\ LET section == IniGet(ConfigIni, Profile)
       IN  IF section = None \/ "ykoath_name" \notin DOMAIN Unwrap(section)
           THEN Fail("UnconfiguredDevice") /\ UNCHANGED yk
           ELSE Goto("ykoath") /\ yk' = "Start"
    /\ UNCHANGED <<fixed, peer, trace, ops, disk, storage, serial, decision, ykLog, ykAnswer,
                   tokenCode, stsOut, wbuf, calls, handed, iamVars>>

\* to_rfc3339 of the response's expiration (mfa.rs:138-142)
ToRfc3339(t) == Rfc3339(t)

\* the properties mfa.rs:126-144 inserts: those the response holds
MfaInserted(c) ==
    LET name == [access_key_id |-> "aws_access_key_id",
                 secret_access_key |-> "aws_secret_access_key",
                 session_token |-> "aws_session_token",
                 expiration |-> "aws_expiration"]
        present == {f \in CredentialsFields : c[f] # None}
    IN  [k \in {name[f] : f \in present} |->
            LET f == CHOOSE g \in present : name[g] = k
            IN  IF f = "expiration" THEN ToRfc3339(Unwrap(c[f])) ELSE Unwrap(c[f])]

\* r overriding l, key by key
Merge(l, r) ==
    [k \in DOMAIN l \cup DOMAIN r |-> IF k \in DOMAIN r THEN r[k] ELSE l[k]]

\* mfa.rs:118-144: the response's credentials go into the section
MfaCredentials ==
    /\ cmd = "mfa" /\ pc = "credentials"
    /\ LET out == Unwrap(stsOut).credentials
           old == IF MfaProfile \in DOMAIN storage THEN storage[MfaProfile]
                  ELSE <<>>
       IN  IF out = None THEN Fail("IncompleteResponse") /\ UNCHANGED storage
           ELSE /\ storage' = Merge(storage,
                        [k \in {MfaProfile} |-> Merge(old, MfaInserted(Unwrap(out)))])
                /\ Goto("save")
    /\ UNCHANGED <<fixed, peer, trace, ops, disk, serial, decision, ykVars, stsOut, wbuf, calls,
                   handed, iamVars>>

\* mfa.rs:148-156: the child reads the profile's section from the file
MfaSpawn ==
    /\ cmd = "mfa" /\ pc = "spawn"
    /\ IF ~opts.arg THEN Fail("ok") /\ UNCHANGED <<calls, handed>>
       ELSE /\ calls' = Called("spawn")
            /\ handed' = IniGet(IniFromText(disk.text), MfaProfile)
            /\ \/ Fail("ok")
               \/ Fail("ChildProcessFailed")
    /\ UNCHANGED <<fixed, peer, trace, ops, disk, storage, serial, decision, ykVars, stsOut, wbuf,
                   iamVars>>

(***************************************************************************)
(* rotate.rs.                                                              *)
(***************************************************************************)
\* rotate.rs:11: Storage::load
RotateLoad ==
    /\ cmd = "rotate" /\ pc = "start"
    /\ IF ~disk.exists THEN Fail("NotFound") /\ UNCHANGED storage
       ELSE IF ~StorageFromJson(disk.text).ok THEN Fail("Corrupt") /\ UNCHANGED storage
       ELSE Goto("lookup") /\ storage' = StorageFromJson(disk.text).value
    /\ UNCHANGED <<fixed, peer, trace, ops, disk, serial, decision, ykVars, stsOut, wbuf, calls,
                   handed, iamVars>>

\* fmt::Debug for Credentials with the derived rendering: every field as it is
DebugCredentialsDerived(c) ==
    [access_key_id |-> c.access_key_id,
     secret_access_key |-> c.secret_access_key,
     session_token |-> c.session_token,
     expiration |-> c.expiration]

\* fmt::Debug for Credentials (storage.rs:46-55): the fields of the
\* debug_struct
DebugCredentials(c) ==
    [access_key_id |-> c.access_key_id,
     secret_access_key |-> "***",
     session_token |-> IF c.session_token = None THEN None ELSE Some("***"),
     expiration |-> c.expiration]

\* tracing::debug!(credentials = ?credentials) (rotate.rs:17, rotate.rs:46)
\* and tracing::debug!(access_key_id = access_key_id) (rotate.rs:30)
CredentialsLine(c) == [field |-> "credentials", text |-> DebugCredentials(c)]
AccessKeyIdLine(id) == [field |-> "access_key_id", text |-> id]

\* a call on the identity service, or the save
Op(op, id) == [op |-> op, id |-> id]

\* rotate.rs:13-17: the cached credentials of --iam
RotateLookup ==
    /\ cmd = "rotate" /\ pc = "lookup"
    /\ IF opts.iam \in DOMAIN storage.credentials
       THEN /\ Goto("list_access_keys")
            /\ trace' = Append(trace, CredentialsLine(storage.credentials[opts.iam]))
       ELSE Fail("MissingCredentials") /\ UNCHANGED trace
    /\ UNCHANGED <<fixed, peer, ops, disk, storage, serial, decision, ykVars, stsOut, wbuf,
                   calls, handed, iamVars>>

\* the sequences that list every element of a set once
Orderings(S) ==
    {q \in [1..Cardinality(S) -> S] : \A x \in S : \E i \in DOMAIN q : q[i] = x}

\* rotate.rs:24-25: list_access_keys, signed with the cached key, reports
\* every key of the identity
RotateList ==
    /\ cmd = "rotate" /\ pc = "list_access_keys"
    /\ calls' = Called("list_access_keys")
    /\ ops' = Append(ops, Op("list", ""))
    /\ \/ Fail("ServiceError") /\ UNCHANGED listed
       \/ /\ storage.credentials[opts.iam].access_key_id \in iamKeys
          /\ \E q \in Orderings(iamKeys) : listed' = q
          /\ Goto("keys")
    /\ UNCHANGED <<fixed, peer, trace, disk, storage, serial, decision, ykVars, stsOut, wbuf,
                   handed, iamKeys>>

\* ShouldDelete with the comparison turned round
ShouldDeleteCached(access_key_id, cached) == access_key_id = cached

\* ShouldDelete sparing no key
ShouldDeleteAll(access_key_id, cached) == TRUE

\* rotate.rs:31: whether the loop deletes the listed key
ShouldDelete(access_key_id, cached) == access_key_id # cached

\* rotate.rs:26-38: one turn of the loop over the listed keys
RotateVisit ==
    /\ cmd = "rotate" /\ pc = "keys" /\ listed # <<>>
    /\ \/ Fail("IncompleteResponse") /\ UNCHANGED <<calls, iamVars, trace, ops>>
       \/ /\ ~ShouldDelete(Head(listed), storage.credentials[opts.iam].access_key_id)
          /\ trace' = Append(trace, AccessKeyIdLine(Head(listed)))
          /\ listed' = Tail(listed) /\ Goto("keys")
          /\ UNCHANGED <<calls, iamKeys, ops>>
       \/ /\ ShouldDelete(Head(listed), storage.credentials[opts.iam].access_key_id)
          /\ trace' = Append(trace, AccessKeyIdLine(Head(listed)))
          /\ calls' = Called("delete_access_key")
          /\ ops' = Append(ops, Op("delete", Head(listed)))
          /\ \/ Fail("ServiceError") /\ UNCHANGED iamVars
             \/ /\ Head(listed) \in iamKeys
                /\ iamKeys' = iamKeys \ {Head(listed)}
                /\ listed' = Tail(listed) /\ Goto("keys")
    /\ UNCHANGED <<fixed, peer, disk, storage, serial, decision, ykVars, stsOut, wbuf,
                   handed>>

\* the fields of aws_sdk_iam::model::AccessKey the conversion reads
AccessKeys ==
    {[access_key_id |-> a, secret_access_key |-> b] :
        a \in {None, Some(NewKeyId)}, b \in {None, Some("secret-new")}}

\* TryFrom<&AccessKey> for Credentials (storage.rs:57-73)
CredentialsFromAccessKey(k) ==
    IF k.access_key_id = None \/ k.secret_access_key = None
    THEN [ok |-> FALSE, value |-> LongLived("")]
    ELSE [ok |-> TRUE,
          value |-> [access_key_id |-> Unwrap(k.access_key_id),
                     secret_access_key |-> Unwrap(k.secret_access_key),
                     session_token |-> None, expiration |-> None]]

\* RotateCreate not waiting for the loop to end
RotateCreateEarly ==
    /\ cmd = "rotate" /\ pc = "keys"
    /\ calls' = Called("create_access_key")
    /\ ops' = Append(ops, Op("create", ""))
    /\ \/ Fail("ServiceError") /\ UNCHANGED <<storage, iamKeys, trace>>
       \/ /\ iamKeys' = iamKeys \cup {NewKeyId}
          /\ \/ Fail("IncompleteResponse") /\ UNCHANGED <<storage, trace>>
             \/ \E k \in AccessKeys :
                   IF CredentialsFromAccessKey(k).ok
                   THEN /\ storage' = [storage EXCEPT !.credentials[opts.iam] =
                                          CredentialsFromAccessKey(k).value]
                        /\ trace' = Append(trace,
                              CredentialsLine(CredentialsFromAccessKey(k).value))
                        /\ Goto("save")
                   ELSE Fail("IncompleteResponse") /\ UNCHANGED <<storage, trace>>
    /\ UNCHANGED <<fixed, peer, disk, serial, decision, ykVars, stsOut, wbuf, handed,
                   listed>>

\* rotate.rs:41-47: create_access_key, and the new key replaces the cached
RotateCreate ==
    /\ cmd = "rotate" /\ pc = "keys" /\ listed = <<>>
    /\ calls' = Called("create_access_key")
    /\ ops' = Append(ops, Op("create", ""))
    /\ \/ Fail("ServiceError") /\ UNCHANGED <<storage, iamKeys, trace>>
       \/ /\ iamKeys' = iamKeys \cup {NewKeyId}
          /\ \/ Fail("IncompleteResponse") /\ UNCHANGED <<storage, trace>>
             \/ \E k \in AccessKeys :
                   IF CredentialsFromAccessKey(k).ok
                   THEN /\ storage' = [storage EXCEPT !.credentials[opts.iam] =
                                          CredentialsFromAccessKey(k).value]
                        /\ trace' = Append(trace,
                              CredentialsLine(CredentialsFromAccessKey(k).value))
                        /\ Goto("save")
                   ELSE Fail("IncompleteResponse") /\ UNCHANGED <<storage, trace>>
    /\ UNCHANGED <<fixed, peer, disk, serial, decision, ykVars, stsOut, wbuf, handed,
                   listed>>

(***************************************************************************)
(* Writing the store file: fs::write (main.rs:97, storage.rs:24) and       *)
(* write_to_file (mfa.rs:145) create the file truncated, then write the    *)
(* text piece by piece.                                                    *)
(***************************************************************************)
StoreText(st) ==
    IF cmd = "mfa" THEN IniToText(st)
    ELSE IF cmd = "rotate" THEN StorageToJson(st)
    ELSE MainToJson(st)

\* the file is opened with create and truncate
FsCreate ==
    /\ pc = "save"
    /\ calls' = Called("write")
    /\ ops' = Append(ops, Op("save", ""))
    /\ \/ Fail("IoError") /\ UNCHANGED <<disk, wbuf>>
       \/ disk' = File(<<>>) /\ wbuf' = StoreText(storage) /\ Goto("writing")
    /\ UNCHANGED <<fixed, peer, trace, storage, serial, decision, ykVars, stsOut, handed,
                   iamVars>>

\* one write of write_all
FsWrite ==
    /\ pc = "writing" /\ wbuf # <<>>
    /\ \/ Fail("IoError") /\ UNCHANGED <<disk, wbuf>>
       \/ /\ disk' = File(Append(disk.text, Head(wbuf)))
          /\ wbuf' = Tail(wbuf)
          /\ Goto("writing")
    /\ UNCHANGED <<fixed, peer, trace, ops, storage, serial, decision, ykVars, stsOut, calls,
                   handed, iamVars>>

\* write_all returned: rotate.rs:51 ends the program, main.rs:100 and
\* mfa.rs:148 go on to the child
FsDone ==
    /\ pc = "writing" /\ wbuf = <<>>
    /\ IF cmd = "rotate" THEN Fail("ok") ELSE Goto("spawn")
    /\ UNCHANGED <<fixed, peer, trace, ops, disk, storage, serial, decision, ykVars, stsOut, wbuf,
                   calls, handed, iamVars>>

(***************************************************************************)
(* The child process and the end of the program.                           *)
(***************************************************************************)
\* main.rs:100-114
MainSpawn ==
    /\ cmd = "main" /\ pc = "spawn"
    /\ LET credentials == storage.mfa_devices[Unwrap(serial)].credentials
       IN  IF ~opts.arg THEN Fail("ok") /\ UNCHANGED <<calls, handed>>
           ELSE IF credentials = None
           THEN Fail("Panic") /\ UNCHANGED <<calls, handed>>
           ELSE /\ calls' = Called("spawn")
                /\ handed' = Some([f \in CredentialsFields \ {"expiration"} |->
                                      Unwrap(credentials)[f]])
                /\ \/ Fail("ok")
                   \/ Fail("ChildProcessFailed")
    /\ UNCHANGED <<fixed, peer, trace, ops, disk, storage, serial, decision, ykVars, stsOut, wbuf,
                   iamVars>>

\* the process is killed (a signal, a power cut) wherever it is
Interrupt ==
    /\ pc # "done"
    /\ Fail("Interrupted")
    /\ UNCHANGED <<fixed, peer, trace, ops, disk, storage, serial, decision, ykVars, stsOut, wbuf,
                   calls, handed, iamVars>>

\* no second invocation
NoPeer ==
    [kind |-> "none", pc |-> "done", result |-> "none", storage |-> None,
     saved |-> FALSE, listed |-> <<>>, deleted |-> {}]

Init == (InitMain \/ InitMfa \/ InitRotate) /\ peer = NoPeer

Next ==
    \/ MainLoad \/ ListMfaDevices \/ MainEntry \/ MainDecide
    \/ YkConnect \/ YkSelect \/ YkCalculate \/ YkResponse
    \/ GetSessionToken \/ MainCredentials
    \/ FsCreate \/ FsWrite \/ FsDone
    \/ MainSpawn
    \/ MfaLoad \/ MfaDecide \/ MfaBaseProfile \/ MfaTokenCode \/ MfaCredentials
    \/ MfaSpawn
    \/ RotateLoad \/ RotateLookup \/ RotateList \/ RotateVisit \/ RotateCreate
    \/ Interrupt

Spec == Init /\ [][Next]_vars


(***************************************************************************)
(* Two invocations of main.rs on the same store file.  The first is the    *)
(* program above; the second is run by another identity, whose device is   *)
(* "mfa2", and takes a step at each of its accesses to the file.           *)
(***************************************************************************)
\* everything of the first invocation that the second leaves alone
own == <<cmd, opts, now, pc, result, disk0, config, storage, serial, decision,
         yk, ykLog, ykAnswer, tokenCode, stsOut, wbuf, calls, handed, iamKeys0,
         listed, trace, ops>>

PeerSerial == "mfa2"
PeerKeyId == "ASIApeer"
PeerCredentials ==
    [access_key_id |-> PeerKeyId, secret_access_key |-> "secret-peer",
     session_token |-> "token-peer", expiration |-> now + DefaultSessionSecs]

PeerStart(kind) ==
    [kind |-> kind, pc |-> "start", result |-> "running", storage |-> None,
     saved |-> FALSE, listed |-> <<>>, deleted |-> {}]
PeerFail(kind) == peer' = [peer EXCEPT !.pc = "done", !.result = kind]

\* the store both invocations start from: both devices configured, a
\* credential cached for neither or an old one for each
RaceDeviceTexts ==
    {[credentials |-> None, ykoath |-> Ykoath],
     [credentials |-> Some(OldCredentials(Margin)), ykoath |-> Ykoath]}
RaceFiles ==
    {File(<<Open, Section("mfa-devices"), Entry("mfa1", v), Entry(PeerSerial, w),
            Close>>) : v \in RaceDeviceTexts, w \in RaceDeviceTexts}

InitRenewals ==
    /\ cmd = "main"
    /\ opts \in [duration : {DefaultSessionSecs}, arg : {FALSE}, iam : {""}]
    /\ disk \in RaceFiles
    /\ config = NoFile
    /\ iamKeys = {}
    /\ InitCommon
    /\ peer = PeerStart("renew")

\* main.rs:61 of the second invocation
PeerLoad ==
    /\ peer.kind = "renew" /\ peer.pc = "start"
    /\ IF ~disk.exists THEN PeerFail("NotFound")
       ELSE IF ~MainFromJson(disk.text).ok THEN PeerFail("Corrupt")
       ELSE peer' = [peer EXCEPT !.pc = "renew",
                                 !.storage = MainFromJson(disk.text).value]
    /\ UNCHANGED <<own, disk, iamKeys>>

\* main.rs:63-96 of the second invocation: the entry, the decision and, if
\* expired, the renewal, in which a collaborator may fail
PeerRenew ==
    /\ peer.kind = "renew" /\ peer.pc = "renew"
    /\ IF PeerSerial \notin DOMAIN peer.storage.mfa_devices
       THEN PeerFail("UnconfiguredDevice")
       ELSE IF ~MainExpired(peer.storage.mfa_devices[PeerSerial].credentials, now)
       THEN PeerFail("ok")
       ELSE \/ PeerFail("ServiceError")
            \/ peer' = [peer EXCEPT
                          !.pc = "save",
                          !.storage.mfa_devices[PeerSerial].credentials =
                             Some(PeerCredentials)]
    /\ UNCHANGED <<own, disk, iamKeys>>

\* PeerSave putting its entry into the document the file holds by then
PeerSaveMerging ==
    /\ peer.kind = "renew" /\ peer.pc = "save"
    /\ disk' = IF disk.exists /\ MainFromJson(disk.text).ok
               THEN File(MainToJson(
                       [MainFromJson(disk.text).value EXCEPT
                          !.mfa_devices[PeerSerial] =
                             peer.storage.mfa_devices[PeerSerial]]))
               ELSE File(MainToJson(peer.storage))
    /\ peer' = [peer EXCEPT !.pc = "done", !.result = "ok", !.saved = TRUE]
    /\ UNCHANGED <<own, iamKeys>>

\* main.rs:97 of the second invocation: the whole document is written
PeerSave ==
    /\ peer.kind = "renew" /\ peer.pc = "save"
    /\ disk' = File(MainToJson(peer.storage))
    /\ peer' = [peer EXCEPT !.pc = "done", !.result = "ok", !.saved = TRUE]
    /\ UNCHANGED <<own, iamKeys>>

NextRenewals ==
    \/ MainLoad \/ ListMfaDevices \/ MainEntry \/ MainDecide
    \/ YkConnect \/ YkSelect \/ YkCalculate \/ YkResponse
    \/ GetSessionToken \/ MainCredentials
    \/ FsCreate \/ FsWrite \/ FsDone
    \/ MainSpawn
    \/ PeerLoad \/ PeerRenew \/ PeerSave

SpecRenewals == InitRenewals /\ [][NextRenewals]_vars

(***************************************************************************)
(* Two invocations of rotate.rs for the same identity on the same store    *)
(* file; the second takes a step at each of its calls and at its save.     *)
(***************************************************************************)
PeerNewKeyId == "AKIApeer"
PeerCachedKeyId == peer.storage.credentials[opts.iam].access_key_id

InitRotations ==
    /\ cmd = "rotate"
    /\ opts \in [duration : {0}, arg : {FALSE}, iam : {Iam}]
    /\ disk = File(StorageToJson(
                 [credentials |-> [k \in {Iam} |-> LongLived(CachedKeyId)],
                  mfa_devices |-> <<>>]))
    /\ config = NoFile
    /\ iamKeys \in {{CachedKeyId}, {CachedKeyId, "AKIA2"}}
    /\ InitCommon
    /\ peer = PeerStart("rotate")

\* rotate.rs:11-16 of the second invocation
PeerRotateLoad ==
    /\ peer.kind = "rotate" /\ peer.pc = "start"
    /\ IF ~disk.exists THEN PeerFail("NotFound")
       ELSE IF ~StorageFromJson(disk.text).ok THEN PeerFail("Corrupt")
       ELSE IF opts.iam \notin DOMAIN StorageFromJson(disk.text).value.credentials
       THEN PeerFail("MissingCredentials")
       ELSE peer' = [peer EXCEPT !.pc = "list_access_keys",
                                 !.storage = StorageFromJson(disk.text).value]
    /\ UNCHANGED <<own, disk, iamKeys>>

\* rotate.rs:24-25 of the second invocation
PeerRotateList ==
    /\ peer.kind = "rotate" /\ peer.pc = "list_access_keys"
    /\ \/ PeerFail("ServiceError")
       \/ /\ PeerCachedKeyId \in iamKeys
          /\ \E q \in Orderings(iamKeys) :
                peer' = [peer EXCEPT !.pc = "keys", !.listed = q]
    /\ UNCHANGED <<own, disk, iamKeys>>

\* PeerRotateVisit deleting every key it visits
PeerRotateVisitAll ==
    /\ peer.kind = "rotate" /\ peer.pc = "keys" /\ peer.listed # <<>>
    /\ IF Head(peer.listed) \in iamKeys
       THEN /\ iamKeys' = iamKeys \ {Head(peer.listed)}
            /\ peer' = [peer EXCEPT !.listed = Tail(@),
                                    !.deleted = @ \cup {Head(peer.listed)}]
       ELSE PeerFail("ServiceError") /\ UNCHANGED iamKeys
    /\ UNCHANGED <<own, disk>>

\* rotate.rs:26-38 of the second invocation: one turn of the loop; the
\* service declines the delete of a key that is gone
PeerRotateVisit ==
    /\ peer.kind = "rotate" /\ peer.pc = "keys" /\ peer.listed # <<>>
    /\ IF ~ShouldDelete(Head(peer.listed), PeerCachedKeyId)
       THEN peer' = [peer EXCEPT !.listed = Tail(@)] /\ UNCHANGED iamKeys
       ELSE IF Head(peer.listed) \in iamKeys
       THEN /\ iamKeys' = iamKeys \ {Head(peer.listed)}
            /\ peer' = [peer EXCEPT !.listed = Tail(@),
                                    !.deleted = @ \cup {Head(peer.listed)}]
       ELSE PeerFail("ServiceError") /\ UNCHANGED iamKeys
    /\ UNCHANGED <<own, disk>>

\* rotate.rs:41-47 of the second invocation
PeerRotateCreate ==
    /\ peer.kind = "rotate" /\ peer.pc = "keys" /\ peer.listed = <<>>
    /\ \/ PeerFail("ServiceError") /\ UNCHANGED iamKeys
       \/ /\ iamKeys' = iamKeys \cup {PeerNewKeyId}
          /\ peer' = [peer EXCEPT !.pc = "save",
                                  !.storage.credentials[opts.iam] =
                                     LongLived(PeerNewKeyId)]
    /\ UNCHANGED <<own, disk>>

\* rotate.rs:49 of the second invocation: the whole document is written
PeerRotateSave ==
    /\ peer.kind = "rotate" /\ peer.pc = "save"
    /\ disk' = File(StorageToJson(peer.storage))
    /\ peer' = [peer EXCEPT !.pc = "done", !.result = "ok", !.saved = TRUE]
    /\ UNCHANGED <<own, iamKeys>>

NextRotations ==
    \/ RotateLoad \/ RotateLookup \/ RotateList \/ RotateVisit \/ RotateCreate
    \/ FsCreate \/ FsWrite \/ FsDone
    \/ PeerRotateLoad \/ PeerRotateList \/ PeerRotateVisit \/ PeerRotateCreate
    \/ PeerRotateSave

SpecRotations == InitRotations /\ [][NextRotations]_vars

(***************************************************************************)
(* What the store file held when the program started.                      *)
(***************************************************************************)
\* mfa.rs: the "<profile>/mfa" section of the credentials file, as an Option
MfaSection0 ==
    IF disk0.exists THEN IniGet(IniFromText(disk0.text), MfaProfile) ELSE None

\* main.rs: the credentials of the reported device's entry, as an Option
MainCredentials0 ==
    IF /\ disk0.exists /\ MainFromJson(disk0.text).ok /\ serial # None
       /\ Unwrap(serial) \in DOMAIN MainFromJson(disk0.text).value.mfa_devices
    THEN MainFromJson(disk0.text).value.mfa_devices[Unwrap(serial)].credentials
    ELSE None

\* the expiration of the cached record, as an Option
CachedExpiration ==
    IF cmd = "mfa"
    THEN IF /\ MfaSection0 # None
            /\ "aws_expiration" \in DOMAIN Unwrap(MfaSection0)
            /\ ParseRfc3339(Unwrap(MfaSection0).aws_expiration).ok
         THEN Some(ParseRfc3339(Unwrap(MfaSection0).aws_expiration).value)
         ELSE None
    ELSE IF cmd = "main" /\ MainCredentials0 # None
    THEN Some(Unwrap(MainCredentials0).expiration)
    ELSE None

\* a cached record is present, complete but for its expiration
CachedLacksExpiration ==
    \/ /\ cmd = "mfa" /\ MfaSection0 # None
       /\ DOMAIN Unwrap(MfaSection0) =
             {"aws_access_key_id", "aws_secret_access_key", "aws_session_token"}
    \/ /\ cmd = "main" /\ disk0.exists
       /\ \E i \in 1..Len(disk0.text) :
             /\ disk0.text[i].tag = "entry"
             /\ "credentials" \in DOMAIN disk0.text[i].val
             /\ disk0.text[i].val.credentials # None
             /\ DOMAIN Unwrap(disk0.text[i].val.credentials) =
                   CredentialsFields \ {"expiration"}

Renewal == cmd \in {"main", "mfa"}
Ended == pc = "done" /\ result # "Interrupted"

(***************************************************************************)
(* The claims.                                                             *)
(***************************************************************************)
\* C1 as stated: for a cached record with expiration e, a requested duration d
\* and the time now, the decision is Stale iff now + d/5 > e, and Fresh
\* otherwise.
C1_Original ==
    decision # "none" /\ CachedExpiration # None =>
        (decision = "Stale" <=> now + (opts.duration \div 5) > Unwrap(CachedExpiration))

\* C1 amended: in mfa.rs the decision is Stale iff now + d/5 > e (d in whole
\* seconds, the quotient rounded down); in main.rs, which takes no duration,
\* it is Stale iff now + 600 s > e.
C1_MarginByProgram ==
    decision # "none" /\ CachedExpiration # None =>
        /\ cmd = "mfa" =>
              (decision = "Stale"
                 <=> now + (opts.duration \div 5) > Unwrap(CachedExpiration))
        /\ cmd = "main" =>
              (decision = "Stale" <=> now + Margin > Unwrap(CachedExpiration))
        /\ decision \in {"Stale", "Fresh"}

\* C1 witness: mfa.rs decided Stale for a record that has not yet expired,
\* on the margin of a fifth of the duration alone
C1_Witness ==
    /\ cmd = "mfa" /\ decision = "Stale" /\ CachedExpiration # None
    /\ now <= Unwrap(CachedExpiration)

HandedOf(record) ==
    IF cmd = "main"
    THEN [f \in CredentialsFields \ {"expiration"} |-> record[f]]
    ELSE record

Cached0 == IF cmd = "main" THEN MainCredentials0 ELSE MfaSection0

\* C3: when the decision is Fresh the run computes no code, makes no exchange
\* call and writes nothing, and the child is handed the cached record as it
\* was.
C3_FreshTouchesNothing ==
    decision = "Fresh" =>
        /\ calls.connect = 0 /\ calls.select = 0 /\ calls.calculate = 0
        /\ calls.get_session_token = 0 /\ calls.write = 0
        /\ yk = "Idle" /\ tokenCode = None /\ stsOut = None
        /\ disk = disk0
        /\ handed # None => handed = Some(HandedOf(Unwrap(Cached0)))

\* C3 witness: a Fresh run has handed the cached record to its child
C3_Witness ==
    decision = "Fresh" /\ handed # None /\ pc = "done" /\ result = "ok"

TokenOrExchangeFailures ==
    {"DeviceNotFound", "DeviceError", "AccountNotFound", "Panic",
     "ExchangeRejected", "IncompleteResponse"}

\* C4: a renewal writes the store file at most once, and only after the code
\* computation and the exchange call have both succeeded; if either fails the
\* file is as it was when the run started.
C4_WriteOnlyAfterSuccess ==
    Renewal =>
        /\ calls.write <= 1
        /\ calls.write = 1 =>
              /\ yk = "CodeReady" /\ calls.calculate = 1
              /\ calls.get_session_token = 1 /\ stsOut # None
        /\ calls.write = 0 => disk = disk0
        /\ result \in TokenOrExchangeFailures => calls.write = 0 /\ disk = disk0

\* C4 witness: a renewal has written the file, once, after both succeeded
C4_Witness ==
    Renewal /\ pc = "done" /\ result = "ok" /\ calls.write = 1 /\ disk # disk0

\* C5 as stated: at every moment, also when the program is interrupted during
\* the save, the store file holds the complete previous document or the
\* complete new one.
C5_Original ==
    disk = disk0 \/ (storage # None /\ disk = File(StoreText(storage)))

\* the access key id the store cached for the identity when rotate.rs started
RotateCached0 ==
    StorageFromJson(disk0.text).value.credentials[opts.iam].access_key_id

Rotated == cmd = "rotate" /\ pc = "done" /\ result = "ok"

\* C6 as stated: after a successful rotation the identity has exactly one
\* access key, it differs from every key that existed before, and the store's
\* cached credential equals it.
C6_Original ==
    Rotated =>
        /\ Cardinality(iamKeys) = 1
        /\ iamKeys \cap iamKeys0 = {}
        /\ storage.credentials[opts.iam].access_key_id \in iamKeys

\* C6 amended: after a successful rotation the identity has exactly two access
\* keys: the one the store cached before, which the loop spares, and the new
\* one, which differs from every key that existed before and is the store's
\* cached credential, in memory and on disk; every other key was deleted.
C6_RotationKeepsCachedKey ==
    Rotated =>
        /\ RotateCached0 \in iamKeys0
        /\ storage.credentials[opts.iam].access_key_id \notin iamKeys0
        /\ iamKeys = {RotateCached0, storage.credentials[opts.iam].access_key_id}
        /\ Cardinality(iamKeys) = 2
        /\ calls.create_access_key = 1
        /\ calls.delete_access_key = Cardinality(iamKeys0) - 1
        /\ disk = File(StoreText(storage))

\* C6 witness: a rotation has succeeded for an identity that had several keys
C6_Witness == Rotated /\ Cardinality(iamKeys0) >= 2

\* the store file caches no credential at the start
NoCredential0 ==
    /\ disk0.exists
    /\ \/ /\ cmd = "main" /\ MainFromJson(disk0.text).ok
          /\ \A sn \in DOMAIN MainFromJson(disk0.text).value.mfa_devices :
                MainFromJson(disk0.text).value.mfa_devices[sn].credentials = None
       \/ cmd = "mfa" /\ MfaSection0 = None

\* the store file holds nothing at all at the start
EmptyStore0 ==
    /\ disk0.exists
    /\ \/ /\ cmd = "main" /\ MainFromJson(disk0.text).ok
          /\ DOMAIN MainFromJson(disk0.text).value.mfa_devices = {}
       \/ cmd = "mfa" /\ DOMAIN IniFromText(disk0.text) = {}

\* the cached session credentials the in-memory store holds
CachedEntries ==
    IF cmd = "main"
    THEN {sn \in DOMAIN storage.mfa_devices :
             storage.mfa_devices[sn].credentials # None}
    ELSE DOMAIN storage \cap {MfaProfile}

\* failures of the collaborators: the service, the token, the file system,
\* the child
CollaboratorFailures ==
    {"NotFound", "ServiceError", "NoDeviceRegistered", "NoUserName",
     "NoSerialNumber", "DeviceNotFound", "DeviceError", "AccountNotFound",
     "Panic", "ExchangeRejected", "IncompleteResponse", "IoError",
     "ChildProcessFailed"}

FirstRenewalDone ==
    /\ decision = "Stale"
    /\ calls.calculate = 1 /\ calls.get_session_token = 1 /\ calls.write = 1
    /\ Cardinality(CachedEntries) = 1
    /\ disk = File(StoreText(storage))

\* C7 as stated: starting from an empty store, a first renewal on which no
\* collaborator fails is decided Stale, performs one code computation and one
\* exchange call and ends with one credential entry in the store, the file
\* equal to the in-memory state.
C7_Original ==
    Renewal /\ EmptyStore0 /\ Ended /\ result \notin CollaboratorFailures =>
        result = "ok" /\ FirstRenewalDone

\* C7 amended: starting from a store that caches no credential, a renewal is
\* never decided Fresh and computes at most one code and makes at most one
\* exchange call; when it succeeds it was decided Stale, made exactly one code
\* computation, one exchange call and one write, and the store holds exactly
\* one cached credential, the file equal to the in-memory state.  It succeeds
\* only if the device (main.rs) or the base profile (mfa.rs) is configured in
\* the store: from a store holding nothing at all it fails before the token is
\* contacted and without a write.
C7_FirstRenewal ==
    Renewal /\ NoCredential0 =>
        /\ decision # "Fresh"
        /\ calls.calculate <= 1 /\ calls.get_session_token <= 1
        /\ pc = "done" /\ result = "ok" => FirstRenewalDone
        /\ EmptyStore0 =>
              /\ result # "ok"
              /\ calls.connect = 0 /\ calls.calculate = 0
              /\ calls.get_session_token = 0 /\ calls.write = 0
              /\ disk = disk0

\* C7 witness: a renewal from a store without a cached credential has
\* succeeded
C7_Witness ==
    Renewal /\ NoCredential0 /\ pc = "done" /\ result = "ok"
    /\ Cardinality(CachedEntries) = 1

\* the code the description gives: the last `digits` decimal digits of the
\* response read as a big-endian u32, zero-padded (the "0" that the code
\* renders for digits = 0 is let pass)
ExpectedCode(digits, response) ==
    LET padded == Zeros(digits) \o Display(FromBeBytes(response))
    IN  IF digits = 0 THEN <<0>>
        ELSE SubSeq(padded, Len(padded) - digits + 1, Len(padded))

\* C8 as stated: for every digits and every 4-byte response the engine yields
\* the decimal rendering of the response mod 10^digits, zero-padded to digits
\* characters; computing 10^digits neither overflows nor fails.
C8_Original ==
    ykAnswer # None /\ Len(Unwrap(ykAnswer).response) = 4 =>
        /\ yk = "CodeReady"
        /\ tokenCode =
              Some(ExpectedCode(Unwrap(ykAnswer).digits, Unwrap(ykAnswer).response))

\* C9: the engine issues connect, then select, then one calculate, each only
\* after the one before it succeeded; no command is repeated after a failure;
\* once the engine has returned it is in CodeReady or Failed.
C9_EngineProtocol ==
    /\ Len(ykLog) <= 3
    /\ \A i \in 1..Len(ykLog) :
          ykLog[i].cmd = <<"connect", "select", "calculate">>[i]
    /\ \A i \in 1..(Len(ykLog) - 1) : ykLog[i].st = "ok"
    /\ calls.connect <= 1 /\ calls.select <= 1 /\ calls.calculate <= 1
    /\ calls.calculate = 1 => Len(ykLog) = 3 /\ ykLog[2] = [cmd |-> "select", st |-> "ok"]
    /\ yk = "CodeReady" => Len(ykLog) = 3 /\ ykLog[3].st = "ok"
    /\ Ended /\ ykLog # <<>> => yk \in {"CodeReady", "Failed"}

\* C9 witness: the engine has gone through its three commands to CodeReady
C9_Witness == yk = "CodeReady" /\ Len(ykLog) = 3 /\ tokenCode # None

\* the device is resolved and nothing is configured for it
NoDeviceEntry ==
    /\ serial # None
    /\ \/ /\ cmd = "main" /\ storage # None
          /\ Unwrap(serial) \notin DOMAIN storage.mfa_devices
       \/ /\ cmd = "mfa" /\ config.exists
          /\ \/ IniGet(ConfigIni, Profile) = None
             \/ "ykoath_name" \notin DOMAIN Unwrap(IniGet(ConfigIni, Profile))

\* C10: when nothing is configured for the resolved device the run fails with
\* UnconfiguredDevice; the token is not contacted, no exchange call is made
\* and the store is not written.
C10_UnconfiguredDevice ==
    NoDeviceEntry =>
        /\ calls.connect = 0 /\ calls.select = 0 /\ calls.calculate = 0
        /\ calls.get_session_token = 0 /\ calls.write = 0
        /\ yk = "Idle" /\ ykLog = <<>> /\ disk = disk0
        /\ decision # "Fresh"
        /\ Ended => result = "UnconfiguredDevice"

\* C10 witness: a run decided Stale has failed with UnconfiguredDevice
C10_Witness ==
    NoDeviceEntry /\ decision = "Stale" /\ pc = "done"
    /\ result = "UnconfiguredDevice"

\* the exchange answered with credentials that lack a required field
ResponseLacksRequired ==
    /\ stsOut # None /\ Unwrap(stsOut).credentials # None
    /\ \/ Unwrap(Unwrap(stsOut).credentials).access_key_id = None
       \/ Unwrap(Unwrap(stsOut).credentials).secret_access_key = None

\* C11 as stated: if the exchange response lacks access_key_id or
\* secret_access_key the renewal fails with IncompleteResponse and nothing is
\* written to the store; in particular such a renewal does not succeed.
C11_Original == Renewal /\ ResponseLacksRequired => result # "ok"

\* the records the in-memory store holds keep expiration and session token
\* together
ExpirationHasToken ==
    IF cmd = "mfa"
    THEN MfaProfile \in DOMAIN storage =>
            ("aws_expiration" \in DOMAIN storage[MfaProfile]
                => "aws_session_token" \in DOMAIN storage[MfaProfile])
    ELSE IF cmd = "rotate"
    THEN \A k \in DOMAIN storage.credentials :
            storage.credentials[k].expiration # None
                => storage.credentials[k].session_token # None
    ELSE \A sn \in DOMAIN storage.mfa_devices :
            storage.mfa_devices[sn].credentials # None =>
                {"expiration", "session_token"}
                    \subseteq DOMAIN Unwrap(storage.mfa_devices[sn].credentials)

\* C14 as stated: every record that renewal or rotation puts into the store
\* has a session token if it has an expiration; so do the records of the
\* document a successful run has saved.
C14_Original ==
    pc = "done" /\ result = "ok" /\ calls.write = 1 =>
        disk = File(StoreText(storage)) /\ ExpirationHasToken

\* C19: whenever main.rs reaches the spawn, the entry of the device holds
\* credentials (those cached, after a Fresh decision, or those just stored,
\* after a renewal), so the unwrap of main.rs:101-104 does not fail.
C19_SpawnHasCredentials ==
    cmd = "main" /\ pc = "spawn" =>
        /\ serial # None /\ Unwrap(serial) \in DOMAIN storage.mfa_devices
        /\ storage.mfa_devices[Unwrap(serial)].credentials # None
        /\ decision = "Fresh" =>
              storage.mfa_devices[Unwrap(serial)].credentials = MainCredentials0
        /\ decision = "Stale" =>
              /\ calls.write = 1 /\ stsOut # None
              /\ Unwrap(storage.mfa_devices[Unwrap(serial)].credentials).access_key_id
                    = "ASIAnew"

\* C19 witness: the child has been spawned after a renewal, with the renewed
\* credentials
C19_Witness ==
    /\ cmd = "main" /\ decision = "Stale" /\ calls.spawn = 1
    /\ handed # None /\ Unwrap(handed).access_key_id = "ASIAnew"

\* C13: for every store value rotate.rs holds, save followed by load yields the
\* same credentials and mfa_devices mappings, field for field; an optional
\* field absent before the save is absent after the load.
C13_RoundTrip ==
    cmd = "rotate" /\ storage # None =>
        /\ StorageFromJson(StorageToJson(storage)) = [ok |-> TRUE, value |-> storage]
        /\ Rotated => StorageFromJson(disk.text) = [ok |-> TRUE, value |-> storage]

\* C13 witness: a store with a record without optional fields and a record
\* with them has been saved, and the file loads to it
C13_Witness ==
    /\ Rotated /\ disk = File(StorageToJson(storage))
    /\ StorageFromJson(disk.text).ok
    /\ \E k \in DOMAIN StorageFromJson(disk.text).value.credentials :
          /\ StorageFromJson(disk.text).value.credentials[k].session_token = None
          /\ StorageFromJson(disk.text).value.credentials[k].expiration = None
    /\ \E k \in DOMAIN StorageFromJson(disk.text).value.credentials :
          /\ StorageFromJson(disk.text).value.credentials[k].session_token # None
          /\ StorageFromJson(disk.text).value.credentials[k].expiration # None
    /\ DOMAIN StorageFromJson(disk.text).value.mfa_devices # {}

\* the store file cached for the identity, when rotate.rs started, a key the
\* identity had
RotateStartsValid ==
    /\ cmd = "rotate" /\ disk0.exists /\ StorageFromJson(disk0.text).ok
    /\ opts.iam \in DOMAIN StorageFromJson(disk0.text).value.credentials
    /\ RotateCached0 \in iamKeys0

\* C18: in a rotation that started with the file caching an existing key, at
\* every step (also after a failure of list, of a delete or of create) the
\* credential the file holds for the identity names a key the identity has;
\* until the save begins the file is as it was at the start.
C18_CachedKeyExists ==
    RotateStartsValid =>
        /\ StorageFromJson(disk.text).ok
              /\ opts.iam \in DOMAIN StorageFromJson(disk.text).value.credentials
              => StorageFromJson(disk.text).value.credentials[opts.iam].access_key_id
                    \in iamKeys
        /\ RotateCached0 \in iamKeys
        /\ calls.write = 0 => disk = disk0
        /\ pc = "done" /\ result \notin {"ok", "IoError", "Interrupted"} => disk = disk0

\* C18 witness: the rotation has failed after it deleted a key, the file
\* unchanged and the key it caches still there
C18_Witness ==
    /\ RotateStartsValid /\ pc = "done" /\ result = "ServiceError"
    /\ calls.delete_access_key >= 2 /\ iamKeys # iamKeys0 /\ disk = disk0

\* the credentials lines of the diagnostic output, in order
IsCredentialsLine(e) == e.field = "credentials"
CredentialsLines == SelectSeq(trace, IsCredentialsLine)

\* other values the secret fields of a record might have had
SecretValues == {"secret-a", "secret-b"}
Vary(c, s, t) ==
    [c EXCEPT !.secret_access_key = s,
              !.session_token = IF @ = None THEN None ELSE Some(t)]

\* the record rotate.rs found cached when it started
RotateRecord0 == StorageFromJson(disk0.text).value.credentials[opts.iam]

\* C12: the diagnostic text of a credential record does not depend on its
\* secret values: it is the text of every record that differs from it only in
\* secret_access_key or in the value of session_token, and it shows the two
\* fields as the marker "***".
C12_DebugRedacts ==
    cmd = "rotate" =>
        /\ Len(CredentialsLines) <= 2
        /\ \A i \in 1..Len(CredentialsLines) :
              /\ CredentialsLines[i].text.secret_access_key = "***"
              /\ CredentialsLines[i].text.session_token \in {None, Some("***")}
        /\ Len(CredentialsLines) >= 1 =>
              \A s \in SecretValues, t \in SecretValues :
                 CredentialsLines[1] = CredentialsLine(Vary(RotateRecord0, s, t))
        /\ Len(CredentialsLines) = 2 =>
              \A s \in SecretValues, t \in SecretValues :
                 CredentialsLines[2] =
                    CredentialsLine(Vary(storage.credentials[opts.iam], s, t))

\* C12 witness: a record with a session token has been put out, the token
\* shown as the marker
C12_Witness ==
    /\ cmd = "rotate" /\ Len(CredentialsLines) >= 1
    /\ RotateRecord0.session_token # None
    /\ CredentialsLines[1].text.session_token = Some("***")

\* C15: a rotation calls list first, then delete for every listed key whose
\* id differs from the cached one and for no other, then create once, then
\* saves; the cached key is never deleted and nothing is deleted after the
\* create.
C15_RotationOrder ==
    cmd = "rotate" =>
        \A i \in 1..Len(ops) :
            /\ ops[i].op \in {"list", "delete", "create", "save"}
            /\ ops[i].op = "list" <=> i = 1
            /\ ops[i].op = "delete" =>
                  /\ ops[i].id # RotateCached0 /\ ops[i].id \in iamKeys0
                  /\ \A j \in 1..(i - 1) :
                        ops[j].op \in {"list", "delete"} /\ ops[j].id # ops[i].id
            /\ ops[i].op = "create" =>
                  /\ \A j \in 2..(i - 1) : ops[j].op = "delete"
                  /\ {ops[j].id : j \in 2..(i - 1)} = iamKeys0 \ {RotateCached0}
                  /\ RotateCached0 \in iamKeys
            /\ ops[i].op = "save" =>
                  i > 1 /\ ops[i - 1].op = "create" /\ i = Len(ops)

\* C15 witness: a rotation has listed, deleted two keys, created one and saved
C15_Witness ==
    /\ Rotated /\ Len(ops) = 5
    /\ ops[2].op = "delete" /\ ops[3].op = "delete"
    /\ ops[4].op = "create" /\ ops[5].op = "save"

\* the file holds a document in which device sn has the credentials with
\* this key id
OnDisk(sn, id) ==
    /\ disk.exists /\ MainFromJson(disk.text).ok
    /\ sn \in DOMAIN MainFromJson(disk.text).value.mfa_devices
    /\ MainFromJson(disk.text).value.mfa_devices[sn].credentials # None
    /\ Unwrap(MainFromJson(disk.text).value.mfa_devices[sn].credentials).access_key_id
          = id

\* the same of a document in memory
Holds(st, sn, id) ==
    /\ st # None /\ sn \in DOMAIN st.mfa_devices
    /\ st.mfa_devices[sn].credentials # None
    /\ Unwrap(st.mfa_devices[sn].credentials).access_key_id = id

\* both invocations have renewed, saved and ended successfully
BothRenewed ==
    /\ cmd = "main" /\ pc = "done" /\ result = "ok" /\ calls.write = 1
    /\ peer.kind = "renew" /\ peer.pc = "done" /\ peer.result = "ok" /\ peer.saved

\* C16: nothing merges the two documents.  When both invocations have
\* completed, a file that holds a document holds the whole document of one of
\* them, and it holds both updates only if one invocation had loaded the
\* other's update; so an interleaving in which both load before either saves
\* loses the update of the one that saves first.
C16_NoMerge ==
    BothRenewed /\ disk.exists /\ MainFromJson(disk.text).ok =>
        /\ \/ disk = File(MainToJson(storage))
           \/ disk = File(MainToJson(peer.storage))
        /\ OnDisk(Unwrap(serial), "ASIAnew") /\ OnDisk(PeerSerial, PeerKeyId) =>
              \/ Holds(storage, PeerSerial, PeerKeyId)
              \/ Holds(peer.storage, Unwrap(serial), "ASIAnew")

\* C16 witness: both have completed successfully and the file lacks the
\* update the first invocation wrote
C16_Witness ==
    /\ BothRenewed /\ serial = Some("mfa1")
    /\ disk = File(MainToJson(peer.storage))
    /\ OnDisk(PeerSerial, PeerKeyId)
    /\ ~OnDisk("mfa1", "ASIAnew")

\* the file holds a document that caches a key for the identity
DiskCaches ==
    /\ disk.exists /\ StorageFromJson(disk.text).ok
    /\ opts.iam \in DOMAIN StorageFromJson(disk.text).value.credentials
DiskKey == StorageFromJson(disk.text).value.credentials[opts.iam].access_key_id

\* the file caches a key the identity no longer has
Dangling == DiskCaches /\ DiskKey \notin iamKeys

\* C17: with two rotations for one identity, the file caches a key that no
\* longer exists only where one rotation has deleted the key the other
\* created; neither deletes the key it had loaded as cached.
C17_DanglingByTheOther ==
    cmd = "rotate" /\ peer.kind = "rotate" =>
        /\ Dangling =>
              \/ DiskKey = NewKeyId /\ NewKeyId \in peer.deleted
              \/ /\ DiskKey = PeerNewKeyId
                 /\ \E i \in 1..Len(ops) : ops[i] = Op("delete", PeerNewKeyId)
        /\ peer.storage # None => PeerCachedKeyId \notin peer.deleted
        /\ storage # None /\ calls.create_access_key = 0 =>
              \A i \in 1..Len(ops) :
                 ops[i].op = "delete"
                    => ops[i].id # storage.credentials[opts.iam].access_key_id

\* C17 witness: both rotations have completed; the second deleted the key the
\* first had just created, and the file caches that key
C17_Witness ==
    /\ Rotated /\ peer.kind = "rotate" /\ peer.pc = "done" /\ peer.result = "ok"
    /\ NewKeyId \in peer.deleted
    /\ Dangling /\ DiskKey = NewKeyId

=============================================================================
